---- MODULE Spec2Model ----
(***************************************************************************)
(* QuestionDependence (src/question_dependence.py): chi-square test of     *)
(* independence between a target survey question and a list of single and  *)
(* multiple choice questions.                                              *)
(*                                                                         *)
(* A csv cell is a sequence of characters; an empty csv field is read by   *)
(* pandas as the missing value NaN.  Counts are integers; an expected      *)
(* frequency row * col / n is kept as the pair (row * col, n), so that the *)
(* comparison with min_count is exact.  The p-value of scipy's chi-square  *)
(* distribution is kept in thousandths; it is nan whenever the degrees of  *)
(* freedom handed to the distribution are not positive, 1.0 when the       *)
(* statistic is zero, and any value of a small grid otherwise.             *)
(***************************************************************************)
EXTENDS Integers, Sequences, FiniteSets, TLC

\* Largest number of respondents (rows) of a dataset.
MaxRows == 4

NaN == <<"nan">>
Whitespace == {" "}

\* Cells of the two columns of the datasets explored.
QCells == {NaN, <<"A">>, <<"B">>, <<"A", ",", " ", "B">>}
TCells == {NaN, <<"Y">>, <<"N">>}

RowKindSeq ==
  << <<NaN, NaN>>, <<NaN, <<"Y">> >>, <<NaN, <<"N">> >>,
     << <<"A">>, NaN>>, << <<"A">>, <<"Y">> >>, << <<"A">>, <<"N">> >>,
     << <<"B">>, NaN>>, << <<"B">>, <<"Y">> >>, << <<"B">>, <<"N">> >>,
     << <<"A", ",", " ", "B">>, NaN>>, << <<"A", ",", " ", "B">>, <<"Y">> >>,
     << <<"A", ",", " ", "B">>, <<"N">> >> >>

NCols == Len(RowKindSeq[1])

\* Row kinds in non-decreasing order: one dataset per multiset of rows.
RECURSIVE SortedKinds(_, _)
SortedKinds(n, lo) ==
  IF n = 0 THEN {<<>>}
  ELSE UNION {{<<k>> \o s : s \in SortedKinds(n - 1, k)} : k \in lo..Len(RowKindSeq)}

Datasets ==
  UNION {{[i \in 1..n |-> RowKindSeq[s[i]]] : s \in SortedKinds(n, 1)} : n \in 0..MaxRows}

\* Constructor arguments explored: target, single, multi, min_count.
Configs ==
  { [target |-> -1, single |-> <<0>>,    multi |-> <<>>,     min_count |-> 1],
    [target |-> -1, single |-> <<0>>,    multi |-> <<>>,     min_count |-> 2],
    [target |-> -1, single |-> <<>>,     multi |-> <<0>>,    min_count |-> 1],
    [target |-> -1, single |-> <<>>,     multi |-> <<0>>,    min_count |-> 2],
    [target |-> 1,  single |-> <<1, 0>>, multi |-> <<>>,     min_count |-> 1],
    [target |-> -1, single |-> <<0>>,    multi |-> <<0>>,    min_count |-> 1],
    [target |-> -1, single |-> <<0, 0>>, multi |-> <<>>,     min_count |-> 1],
    [target |-> 0,  single |-> <<>>,     multi |-> <<1>>,    min_count |-> 1],
    [target |-> -1, single |-> <<>>,     multi |-> <<1, 0>>, min_count |-> 1],
    [target |-> 1,  single |-> <<1>>,    multi |-> <<0>>,    min_count |-> 1],
    [target |-> 2,  single |-> <<0>>,    multi |-> <<>>,     min_count |-> 1],
    [target |-> -1, single |-> <<2>>,    multi |-> <<0>>,    min_count |-> 1] }

\* significance_level = 0.1, in thousandths.
significance_level == 100
multi_delimiter == ","

\* P-values (thousandths) the chi-square distribution may return.
PValues == {50, 100, 150}

VARIABLES df, target, single, multi, min_count, pc, error, todo, pos, cur,
          stats, report

vars == <<df, target, single, multi, min_count, pc, error, todo, pos, cur,
          stats, report>>

----
\* Python and pandas helpers.

InSeq(x, s) == \E i \in 1..Len(s) : s[i] = x

RECURSIVE Insert(_, _)
Insert(x, s) ==
  IF s = <<>> THEN <<x>>
  ELSE IF x <= Head(s) THEN <<x>> \o s
  ELSE <<Head(s)>> \o Insert(x, Tail(s))

RECURSIVE InsertionSort(_)
InsertionSort(s) ==
  IF s = <<>> THEN <<>> ELSE Insert(Head(s), InsertionSort(Tail(s)))

Unsorted(s) == s

sorted(s) == InsertionSort(s)

\* df.iloc[:, i]: negative positions count from the end.
InRange(i) == -NCols <= i /\ i < NCols
Position(i) == IF i < 0 THEN i + NCols ELSE i
Column(i) == [r \in 1..Len(df) |-> df[r][Position(i) + 1]]

\* column.cat.categories: the distinct values present, NaN excluded.
Categories(col) == {col[r] : r \in 1..Len(col)} \ {NaN}

\* str.split(delimiter)
RECURSIVE SplitFrom(_, _, _)
SplitFrom(s, d, acc) ==
  IF s = <<>> THEN <<acc>>
  ELSE IF Head(s) = d THEN <<acc>> \o SplitFrom(Tail(s), d, <<>>)
  ELSE SplitFrom(Tail(s), d, Append(acc, Head(s)))

split(s, d) == SplitFrom(s, d, <<>>)

\* str.strip()
RECURSIVE LStrip(_)
LStrip(s) ==
  IF s # <<>> /\ Head(s) \in Whitespace THEN LStrip(Tail(s)) ELSE s

RECURSIVE RStrip(_)
RStrip(s) ==
  IF s # <<>> /\ s[Len(s)] \in Whitespace THEN RStrip(SubSeq(s, 1, Len(s) - 1)) ELSE s

strip(s) == RStrip(LStrip(s))

\* zip(column, target_column)
Zip(col, tcol) == [r \in 1..Len(col) |-> <<col[r], tcol[r]>>]

TargetColumn == Column(target)
n_target_categories == Cardinality(Categories(TargetColumn))

----
\* convert_multi_to_single: one (label, target) pair per selected option.

ExpandRow(row_data, row_target) ==
  LET data == split(row_data, multi_delimiter)
  IN  [k \in 1..Len(data) |-> <<strip(data[k]), row_target>>]

RECURSIVE ExpandRows(_)
ExpandRows(rows) ==
  IF rows = <<>> THEN <<>>
  ELSE ExpandRow(Head(rows)[1], Head(rows)[2]) \o ExpandRows(Tail(rows))

\* The exception the conversion ends with, "" when it returns.
\* A NaN cell is a float and has no split(); an empty frame has no column 0.
ConvertError(column) ==
  IF \E r \in 1..Len(column) : column[r] = NaN THEN "AttributeError"
  ELSE IF Len(column) = 0 THEN "IndexError"
  ELSE ""

convert_multi_to_single(column) == ExpandRows(Zip(column, TargetColumn))

----
\* analyze_question: observed and expected frequencies.

\* pd.crosstab(column, target_column): pairs with a missing value are
\* dropped, and only the labels that occur in a remaining pair get a row or
\* a column; a combination that does not occur counts 0.
Valid(pairs) == {i \in 1..Len(pairs) : pairs[i][1] # NaN /\ pairs[i][2] # NaN}
RowLabels(pairs) == {pairs[i][1] : i \in Valid(pairs)}
ColLabels(pairs) == {pairs[i][2] : i \in Valid(pairs)}

crosstab(pairs) ==
  [cell \in RowLabels(pairs) \X ColLabels(pairs) |->
     Cardinality({i \in Valid(pairs) : pairs[i] = cell})]

Rows(table) == {cell[1] : cell \in DOMAIN table}
Cols(table) == {cell[2] : cell \in DOMAIN table}

RECURSIVE SumOver(_, _)
SumOver(table, cells) ==
  IF cells = {} THEN 0
  ELSE LET c == CHOOSE x \in cells : TRUE
       IN  table[c] + SumOver(table, cells \ {c})

RowSum(table, a) == SumOver(table, {cell \in DOMAIN table : cell[1] = a})
ColSum(table, b) == SumOver(table, {cell \in DOMAIN table : cell[2] = b})
GrandTotal(table) == SumOver(table, DOMAIN table)

\* n_expected[i][j] = row * col / n, kept as numerator and denominator.
Expected(table) ==
  [num |-> [cell \in DOMAIN table |-> RowSum(table, cell[1]) * ColSum(table, cell[2])],
   den |-> GrandTotal(table)]

\* np.any(n_expected < min_count)
AnyBelowOrEqual(n_expected, m) ==
  \E cell \in DOMAIN n_expected.num : n_expected.num[cell] <= m * n_expected.den

AnyBelow(n_expected, m) ==
  \E cell \in DOMAIN n_expected.num : n_expected.num[cell] < m * n_expected.den

\* ddof = n_categories + self.n_target_categories - 2
Ddof(n_categories) == n_categories + n_target_categories - 2

\* chisquare(..., axis=None, ddof): the distribution gets k - 1 - ddof
\* degrees of freedom, k the number of cells of the flattened table.
EffectiveDof(table, n_categories) ==
  Cardinality(DOMAIN table) - 1 - Ddof(n_categories)

\* The statistic is 0 exactly when every observed count equals its expected.
StatisticZero(table, n_expected) ==
  \A cell \in DOMAIN table : table[cell] * n_expected.den = n_expected.num[cell]

PNaN == [nan |-> TRUE, milli |-> 0]
P(v) == [nan |-> FALSE, milli |-> v]

ChisquareP(table, n_expected, n_categories) ==
  IF EffectiveDof(table, n_categories) <= 0 THEN {PNaN}
  ELSE IF StatisticZero(table, n_expected) THEN {P(1000)}
  ELSE {P(v) : v \in PValues}

\* p <= self.significance_level (a comparison with nan is False)
StrictlyBelowLevel(p) == ~p.nan /\ p.milli < significance_level

Related(p) == ~p.nan /\ p.milli <= significance_level

----
\* State machine of QuestionDependence(path, target, single, multi, ...).

Verdicts == {"invalid", "related", "not related"}

NoCur == [kind |-> "none"]

Init ==
  /\ df \in Datasets
  /\ \E c \in Configs :
       /\ target = c.target
       /\ single = c.single
       /\ multi = c.multi
       /\ min_count = c.min_count
  /\ pc = "init"
  /\ error = ""
  /\ todo = <<>>
  /\ pos = 1
  /\ cur = NoCur
  /\ stats = [k \in Verdicts |-> <<>>]
  /\ report = <<>>

Raise(exception) ==
  /\ pc' = "error"
  /\ error' = exception

\* __init__ up to the call of run(); run() fixes the order of the questions.
Construct ==
  /\ pc = "init"
  /\ LET t == IF target = -1 THEN NCols - 1 ELSE target
     IN  /\ target' = t
         /\ IF InRange(t)
            THEN /\ pc' = "run"
                 /\ todo' = sorted(single \o multi)
                 /\ UNCHANGED error
            ELSE /\ Raise("IndexError")
                 /\ UNCHANGED todo
  /\ UNCHANGED <<df, single, multi, min_count, pos, cur, stats, report>>

\* analyze_question up to the expected frequencies.
Analysis(i_question, kind, column, pairs, n_categories) ==
  LET n_observed == crosstab(pairs)
  IN  [i_question |-> i_question, kind |-> kind, column |-> column,
       pairs |-> pairs, n_categories |-> n_categories,
       n_observed |-> n_observed, n_expected |-> Expected(n_observed)]

\* run(): the next question is a single choice question.
RunSingle ==
  /\ pc = "run"
  /\ pos <= Len(todo)
  /\ InSeq(todo[pos], single)
  /\ LET i_question == todo[pos]
     IN  IF InRange(i_question)
         THEN /\ cur' = Analysis(i_question, "single", Column(i_question),
                                 Zip(Column(i_question), TargetColumn),
                                 Cardinality(Categories(Column(i_question))))
              /\ pc' = "gate"
              /\ UNCHANGED error
         ELSE /\ Raise("IndexError")
              /\ UNCHANGED cur
  /\ UNCHANGED <<df, target, single, multi, min_count, todo, pos, stats, report>>

\* run(): the next question is a multiple choice question only.
RunMulti ==
  /\ pc = "run"
  /\ pos <= Len(todo)
  /\ ~InSeq(todo[pos], single)
  /\ InSeq(todo[pos], multi)
  /\ LET i_question == todo[pos]
     IN  IF ~InRange(i_question)
         THEN /\ Raise("IndexError")
              /\ UNCHANGED cur
         ELSE LET column == Column(i_question)
              IN  IF ConvertError(column) # ""
                  THEN /\ Raise(ConvertError(column))
                       /\ cur' = [kind |-> "multi", i_question |-> i_question,
                                  column |-> column, pairs |-> <<>>]
                  ELSE LET pairs == convert_multi_to_single(column)
                       IN  /\ cur' = Analysis(i_question, "multi", column, pairs,
                                       Cardinality({pairs[i][1] : i \in 1..Len(pairs)}))
                           /\ pc' = "gate"
                           /\ UNCHANGED error
  /\ UNCHANGED <<df, target, single, multi, min_count, todo, pos, stats, report>>

Entry(tested, dof, p, verdict) ==
  [i_question |-> cur.i_question, kind |-> cur.kind,
   n_categories |-> cur.n_categories, n_target_categories |-> n_target_categories,
   n_observed |-> cur.n_observed, n_expected |-> cur.n_expected,
   min_count |-> min_count, statistic |-> tested, dof |-> dof, p |-> p,
   verdict |-> verdict]

Record(entry) ==
  /\ stats' = [stats EXCEPT ![entry.verdict] = Append(@, entry.i_question)]
  /\ report' = Append(report, entry)
  /\ pc' = "run"
  /\ pos' = pos + 1
  /\ cur' = NoCur

\* analyze_question: the minimum expected count gate.
ValidityGate ==
  /\ pc = "gate"
  /\ IF AnyBelow(cur.n_expected, min_count)
     THEN Record(Entry(FALSE, 0, PNaN, "invalid"))
     ELSE /\ pc' = "chisquare"
          /\ UNCHANGED <<stats, report, pos, cur>>
  /\ UNCHANGED <<df, target, single, multi, min_count, error, todo>>

\* analyze_question: statistic, p-value and interpretation.
Chisquare ==
  /\ pc = "chisquare"
  /\ \E p \in ChisquareP(cur.n_observed, cur.n_expected, cur.n_categories) :
       Record(Entry(TRUE, EffectiveDof(cur.n_observed, cur.n_categories), p,
                    IF Related(p) THEN "related" ELSE "not related"))
  /\ UNCHANGED <<df, target, single, multi, min_count, error, todo>>

\* run() is over: print_stats.
PrintStats ==
  /\ pc = "run"
  /\ pos > Len(todo)
  /\ pc' = "done"
  /\ UNCHANGED <<df, target, single, multi, min_count, error, todo, pos, cur,
                 stats, report>>

Next ==
  \/ Construct
  \/ RunSingle
  \/ RunMulti
  \/ ValidityGate
  \/ Chisquare
  \/ PrintStats

Spec == Init /\ [][Next]_vars

----
\* Properties.

Occurrences(x, s) == Cardinality({i \in 1..Len(s) : s[i] = x})
AllVerdicts == stats["invalid"] \o stats["related"] \o stats["not related"]
Configured == {single[i] : i \in 1..Len(single)} \cup {multi[i] : i \in 1..Len(multi)}
IsPrefix(s, t) == Len(s) <= Len(t) /\ SubSeq(t, 1, Len(s)) = s
NonDecreasing(s) == \A i \in 1..Len(s) : \A j \in i..Len(s) : s[i] <= s[j]
Questions(entries) == [i \in 1..Len(entries) |-> entries[i].i_question]
WithVerdict(v) == SelectSeq(report, LAMBDA e : e.verdict = v)
NRows(table) == Cardinality(Rows(table))
NColumns(table) == Cardinality(Cols(table))

\* Some cell of the expected table of an observed table is below m:
\* row sum * column sum / grand total < m.
MinExpectedBelow(table, m) ==
  \E cell \in DOMAIN table :
    RowSum(table, cell[1]) * ColSum(table, cell[2]) < m * GrandTotal(table)

MinExpectedEquals(table, m) ==
  /\ DOMAIN table # {}
  /\ ~MinExpectedBelow(table, m)
  /\ \E cell \in DOMAIN table :
       RowSum(table, cell[1]) * ColSum(table, cell[2]) = m * GrandTotal(table)

\* C1: after run() every configured question index is in exactly one of the
\* three summary lists, exactly once, also when an index is configured twice.
C1_ExactlyOnce ==
  pc = "done" => \A q \in Configured : Occurrences(q, AllVerdicts) = 1

\* C2: a question is recorded 'invalid' if and only if some expected
\* frequency is below min_count (an expected frequency equal to min_count
\* passes); the statistic is computed only behind the gate, never for an
\* 'invalid' question.
C2_InvalidIffBelowMinCount ==
  /\ \A i \in 1..Len(report) :
       /\ report[i].verdict = "invalid"
            <=> MinExpectedBelow(report[i].n_observed, min_count)
       /\ report[i].verdict = "invalid" => ~report[i].statistic
       /\ report[i].verdict # "invalid" => report[i].statistic
  /\ pc = "chisquare" => ~MinExpectedBelow(cur.n_observed, min_count)

C2_Witness ==
  \E i \in 1..Len(report) :
    /\ report[i].statistic
    /\ report[i].verdict # "invalid"
    /\ MinExpectedEquals(report[i].n_observed, min_count)

\* C3: for every question that reaches the statistic with a non-empty
\* observed table, the degrees of freedom used for the p-value are
\* (r - 1)(c - 1), r and c the numbers of rows and columns of that table.
C3_DofIsTextbook ==
  \A i \in 1..Len(report) :
    (report[i].statistic /\ DOMAIN report[i].n_observed # {}) =>
      report[i].dof = (NRows(report[i].n_observed) - 1)
                        * (NColumns(report[i].n_observed) - 1)

C5_TargetNeverTested ==
  pc # "init" =>
    /\ \A i \in 1..Len(AllVerdicts) : AllVerdicts[i] # target
    /\ \A i \in 1..Len(report) : report[i].i_question # target
    /\ pc \in {"gate", "chisquare"} => cur.i_question # target

\* C6: a question whose contingency table has grand total 0 is recorded
\* 'invalid'.
C6_ZeroTotalInvalid ==
  \A i \in 1..Len(report) :
    GrandTotal(report[i].n_observed) = 0 => report[i].verdict = "invalid"

\* C7: a question with a single observed category is always recorded
\* 'invalid'.
C7_OneCategoryInvalid ==
  \A i \in 1..Len(report) :
    NRows(report[i].n_observed) = 1 => report[i].verdict = "invalid"

LabelCount(cell) == IF cell = NaN THEN 0 ELSE Len(split(cell, multi_delimiter))

RECURSIVE LabelTotal(_)
LabelTotal(column) ==
  IF column = <<>> THEN 0 ELSE LabelCount(Head(column)) + LabelTotal(Tail(column))

\* C8: the conversion of a multiple choice column returns as many pairs as
\* the rows have labels, a missing cell counting for none and raising no
\* error.
C8_CountPreserving ==
  (cur.kind = "multi" /\ Len(cur.column) > 0) =>
    /\ error = ""
    /\ Len(cur.pairs) = LabelTotal(cur.column)

\* C9: with a target index out of range or a target column of fewer than 2
\* categories (in a dataset that has rows) the construction aborts before
\* any question is tested: analyze_question is never called and the three
\* summary lists stay empty.
C9_FatalTargetError ==
  (pc # "init" /\ Len(df) > 0
     /\ (~InRange(target) \/ n_target_categories < 2)) =>
    /\ pc \notin {"gate", "chisquare"}
    /\ report = <<>>
    /\ \A v \in Verdicts : stats[v] = <<>>

\* C10: questions are processed in ascending index order whatever the order
\* of the configured lists: the report and each summary list are only
\* appended to and stay in non-decreasing index order.
C10_AscendingAppendOnly ==
  [][/\ IsPrefix(report, report')
     /\ NonDecreasing(Questions(report'))
     /\ \A v \in Verdicts :
          /\ IsPrefix(stats[v], stats'[v])
          /\ NonDecreasing(stats'[v])]_vars

C10_Witness ==
  /\ pc = "done"
  /\ Len(single) = 2
  /\ single[1] > single[2]
  /\ Len(report) = 2
  /\ report[1].i_question < report[2].i_question
  /\ \E v \in Verdicts : Len(stats[v]) = 2

====
